---- MODULE Spec2Model ----
(***************************************************************************)
(* Batch execution engine of video_processor (engine.py): the work items,  *)
(* the worker pool of start_batch, _process_item, and the BatchHandle      *)
(* operations pause / resume / cancel / retry_failed, with the external    *)
(* encoder process as an environment.  Worker steps are cut at the shared  *)
(* reads and writes of _process_item; a program counter is named after the *)
(* line of engine.py it stands at.                                         *)
(***************************************************************************)
EXTENDS Integers, Sequences, FiniteSets, TLC

\* ---- bounds of the model ------------------------------------------------
NumJobs == 2
MaxWorkers == 2
MaxCalls == 2
MaxSuffix == 2
MaxStr == 2
MaxExts == 2

Jobs == 1..NumJobs
Workers == 1..MaxWorkers

\* ---- program constants ---------------------------------------------------
STATUS_QUEUED == "queued"
STATUS_RUNNING == "running"
STATUS_COMPLETED == "completed"
STATUS_FAILED == "failed"
STATUS_SKIPPED == "skipped"
STATUS_CANCELED == "canceled"

Statuses ==
  {STATUS_QUEUED, STATUS_RUNNING, STATUS_COMPLETED, STATUS_FAILED, STATUS_SKIPPED, STATUS_CANCELED}

Terminal == {STATUS_COMPLETED, STATUS_FAILED, STATUS_SKIPPED, STATUS_CANCELED}

\* item.progress = None (duration unknown)
NoProgress == -1

\* durations probe_media can report, in seconds; 0 stands for "no duration"
Durations == {0, 10}

\* out_time_ms values (microseconds) the encoder reports, a cumulative counter
Ticks == <<500000, 1000000, 2900000, 12000000>>

\* the encoder's exit statuses: 0, a failure, and death by terminate()
ExitCodes == {0, 1}
Terminated == -15

\* what a failing ffprobe or ffmpeg writes to stderr for the inputs of a run
Diagnostics == {"", "invalid data found when processing input", "moov atom not found",
                "permission denied"}

\* config.collision_policy
Policies == {"skip", "overwrite", "suffix"}

\* file names under the output root: <<i, 0>> is the path mirroring input i,
\* <<i, k>> the same name with "_k" appended to its stem
Names == Jobs \X (0..MaxSuffix)

NoProc == [alive |-> FALSE, rc |-> 0, pos |-> 0, ended |-> FALSE, natural |-> FALSE]

VARIABLES
  started,            \* start_batch has returned a handle
  raised,             \* start_batch has raised out of validate() or check_ffmpeg()
  dry_run,            \* config.dry_run
  nworkers,           \* max(1, workers if parallel else 1)
  policy,             \* config.collision_policy
  config_ok,          \* AppConfig.validate() finds nothing wrong
  ffmpeg_ok,          \* ffmpeg and ffprobe are found in PATH
  diagnostic,         \* the stderr text of a failing ffprobe or ffmpeg
  fs,                 \* names that exist under the output root when scan_inputs runs
  fsnow,              \* names that exist under the output root now
  dest,               \* WorkItem.output_path, by job id: the k of its name <<i, k>>
  seeded,             \* jobs scan_inputs returned as Queued
  rescan,             \* what a second scan_inputs returned (<<>>: not run)
  status,             \* WorkItem.status, by job id
  progress,           \* WorkItem.progress
  message,            \* WorkItem.message
  error,              \* WorkItem.error
  media,              \* WorkItem.media.duration (-1: not probed)
  final,              \* the batch has moved an output to the job's final path
  at_final,           \* what the batch has put at the job's final path: "none",
                      \* "finished" (output of an encoder that exited 0) or "partial"
  queue,              \* work_queue
  pause_event,        \* threading.Event: set = not paused
  cancel_event,       \* threading.Event
  running_processes,  \* job id -> worker whose Popen is registered (0: no entry)
  pc,                 \* position of each worker thread
  item,               \* the item a worker holds (0: none)
  proc,               \* the Popen of a worker
  temp,               \* the file at a worker's temp_output: "none", "partial", "finished"
  swallowed,          \* _cleanup_partial caught an OSError for the worker's temp_output
  move_failed,        \* temp_output.replace(output_path) raised OSError in the worker's call
  there,              \* by job: a file that no job of the batch wrote is at its output_path
  orig,               \* the field values an AppConfig was constructed with
  config,             \* the AppConfig object c
  data,               \* <<c.to_dict()>> once it was called, else <<>>
  loaded,             \* <<AppConfig.from_dict(data)>> once it was called, else <<>>
  args,               \* the keyword arguments of build_ffmpeg_command
  cmd,                \* the list it returned, <<>> before the call
  ctl,                \* position of the thread calling the BatchHandle
  ridx,               \* retry_failed: index of its loop over items
  updated,            \* _mark_queued_canceled: its local list
  calls,              \* BatchHandle calls the caller still makes
  cb,                 \* item callbacks invoked by the last step
  lg,                 \* records passed to the logger by the last step
  delivered,          \* progress last delivered to the callback, by job id
  afterCancel,        \* a cancel() has returned and no retry_failed() was called since
  repeat,             \* the cancel() in progress began with afterCancel
  queuedAtCancel,     \* jobs that were queued when cancel() set the flag
  failedAtCall,       \* jobs that were failed when the current retry_failed() was called
  retried,            \* jobs the current retry_failed() has changed
  retry_called,       \* retry_failed() has been called on this handle
  sink,               \* the BatchLogger's files: "none", "open" or "closed"
  closed,             \* BatchHandle._closed
  closes,             \* invocations of logger.close()
  batch_cb,           \* invocations of on_batch_update
  mon,                \* position of the monitor thread
  told,               \* status last delivered to the item callback, by job id
  owed,               \* terminal transitions of a job minus its log records
  inputs,             \* stems of the input files the walk of scan_inputs finds
  disk,               \* stems of the files that exist under the output root
  collision_policy,   \* config.collision_policy of the scan over inputs
  items,              \* the WorkItems of that scan, by input stem; <<>> before it
  temp_output,        \* temp_output of _process_item, by input stem; "" before line 281
  stage               \* where the job of an input stem is in _process_item

jobvars == <<status, progress, message, error, media, final, at_final, there>>
ctlvars == <<ctl, ridx, updated, calls, afterCancel, repeat, queuedAtCancel, failedAtCall, retried, retry_called>>
wrkvars == <<pc, item, proc, temp, swallowed, move_failed>>
namevars == <<inputs, disk, collision_policy, items, temp_output, stage>>
purevars == <<orig, config, data, loaded, args, cmd, namevars>>
envvars == <<dry_run, nworkers, policy, config_ok, ffmpeg_ok, diagnostic, fs, fsnow, dest, seeded,
             rescan, purevars>>
cfgvars == <<started, raised, envvars>>
monvars == <<sink, closed, closes, batch_cb, mon>>
\* everything but purevars
batchvars == <<started, raised, dry_run, nworkers, policy, config_ok, ffmpeg_ok, diagnostic,
               fs, fsnow, dest, seeded, rescan, monvars, jobvars, queue, pause_event,
               cancel_event, running_processes, wrkvars, ctlvars, cb, lg, delivered, told, owed>>
vars == <<started, raised, envvars, monvars, told, owed, temp, swallowed, move_failed, status, progress, message, error, media, final, at_final, there, queue,
          pause_event, cancel_event, running_processes, pc, item, proc, ctl, ridx, updated,
          calls, cb, lg, delivered, afterCancel, repeat, queuedAtCancel, failedAtCall, retried, retry_called>>

\* ---- helpers -------------------------------------------------------------
\* the jobs of S in descending order of id
RECURSIVE SeqOfSetDesc(_)
SeqOfSetDesc(S) ==
  IF S = {} THEN <<>>
  ELSE LET m == CHOOSE x \in S : \A y \in S : x >= y
       IN <<m>> \o SeqOfSetDesc(S \ {m})

\* the jobs of S in the order of self.items, which is scan order
RECURSIVE SeqOfSet(_)
SeqOfSet(S) ==
  IF S = {} THEN <<>>
  ELSE LET m == CHOOSE x \in S : \A y \in S : x <= y
       IN <<m>> \o SeqOfSet(S \ {m})

Max(a, b) == IF a >= b THEN a ELSE b
Min(a, b) == IF a <= b THEN a ELSE b

\* what the receiver of on_item_update(item) sees of job i in the state (st, pr)
Record(i, st, pr) == [id |-> i, status |-> st[i], progress |-> pr[i]]

\* _emit_item(item) / self._on_item_update(item) for the jobs of s, in order
EmitAll(s, st, pr) == [k \in 1..Len(s) |-> Record(s[k], st, pr)]

Deliver(recs) ==
  [i \in Jobs |->
     IF \E k \in 1..Len(recs) : recs[k].id = i
     THEN (CHOOSE r \in {recs[k] : k \in 1..Len(recs)} : r.id = i).progress
     ELSE delivered[i]]

\* the step invokes the callback for the jobs of s (after its writes)
Emits(s) ==
  /\ cb' = EmitAll(s, status', progress')
  /\ delivered' = Deliver(EmitAll(s, status', progress'))
  /\ told' = [i \in Jobs |->
               IF \E k \in 1..Len(s) : s[k] = i THEN status'[i] ELSE told[i]]

NoEmit == cb' = <<>> /\ UNCHANGED <<delivered, told>>

\* the step's account of log records: a job that enters a terminal status is
\* owed one record, the record of the job of s (at most one a step) pays one
Settle(s) ==
  owed' = [i \in Jobs |->
             owed[i]
             + (IF status[i] \notin Terminal /\ status'[i] \in Terminal THEN 1 ELSE 0)
             - (IF s # <<>> /\ s[1] = i THEN 1 ELSE 0)]

\* _log_item(item, logger)
LogItem(i) ==
  /\ lg' = <<[id |-> i, status |-> status'[i]]>>
  /\ Settle(<<i>>)

NoLog == lg' = <<>> /\ Settle(<<>>)

\* the pairs (out_time_us, duration) of Ticks and Durations for which the
\* double (out_time_us / total_us) * 100 lies below the next integer that the
\* exact quotient reaches: 2900000 / 10000000.0 * 100 = 28.999999999999996
FloatShort == {<<2900000, 10>>}

\* line 230: int(math.floor((out_time_us / total_us) * 100)) in double arithmetic
float_percent(out_time_us, duration) ==
  LET exact == (out_time_us * 100) \div (duration * 1000000)
  IN  IF <<out_time_us, duration>> \in FloatShort THEN exact - 1 ELSE exact

\* progress_from_out_time without the upper clamp
progress_unclamped(out_time_us, duration) ==
  IF duration <= 0 THEN NoProgress
  ELSE Max(0, float_percent(out_time_us, duration))

\* ffmpeg.py, progress_from_out_time
progress_from_out_time(out_time_us, duration) ==
  IF duration <= 0 THEN NoProgress
  ELSE Max(0, Min(100, float_percent(out_time_us, duration)))

\* self._lock is held by the caller of retry_failed for the whole loop
LockFree == ctl # "r113"

\* ---- scan_inputs ---------------------------------------------------------
\* _suffix_path with the existence test left out
suffix_path_blind(files, i) == 1

\* _suffix_path(path): the first counter whose candidate does not exist
suffix_path(files, i) ==
  CHOOSE k \in 1..(MaxSuffix + 1) :
    /\ <<i, k>> \notin files
    /\ \A j \in 1..(k - 1) : <<i, j>> \in files

\* lines 157-166: status and destination of the item for input i
scan_status(files, pol, i) ==
  IF <<i, 0>> \in files /\ pol = "skip" THEN STATUS_SKIPPED ELSE STATUS_QUEUED

scan_dest(files, pol, i) ==
  IF <<i, 0>> \in files /\ pol = "suffix" THEN suffix_path(files, i) ELSE 0

\* scan_inputs: one item per input file, ids in the order of the walk
scan_inputs(files, pol) ==
  [i \in Jobs |-> [id |-> i, status |-> scan_status(files, pol, i),
                   output_path |-> scan_dest(files, pol, i)]]

\* the checks of enqueueing with every item taken
EnqueuedAny(s) == TRUE

\* line 199
Enqueued(s) == s = STATUS_QUEUED

\* lines 188-189 with the checks left out
ValidatedNever == TRUE

\* lines 188-189: validate() and check_ffmpeg() return
Validated == config_ok /\ ffmpeg_ok

\* ---- config.py: AppConfig ------------------------------------------------
\* a string is a sequence of characters; these stand for a lower-case letter,
\* an upper-case letter, white space and the dot
Chars == {"a", "A", " ", "."}

Strs == UNION {[1..n -> Chars] : n \in 0..MaxStr}
ExtLists == UNION {[1..n -> Strs] : n \in 0..MaxExts}

\* str.lower()
Lower(str) == [k \in 1..Len(str) |-> IF str[k] = "A" THEN "a" ELSE str[k]]

\* str.strip()
Strip(str) ==
  LET keep == {k \in 1..Len(str) : str[k] # " "}
  IN  IF keep = {} THEN <<>>
      ELSE SubSeq(str, CHOOSE k \in keep : \A l \in keep : k <= l,
                       CHOOSE k \in keep : \A l \in keep : k >= l)

\* lines 130-131 with the test of startswith(".") left out
dot_always(ext) == <<".">> \o ext

\* lines 130-131: if not ext.startswith("."): ext = f".{ext}"
dot_prefixed(ext) == IF ext # <<>> /\ ext[1] = "." THEN ext ELSE <<".">> \o ext

\* ext not in result
Has(result, ext) == \E k \in 1..Len(result) : result[k] = ext

\* the loop of _normalize_extensions over values, result being built
RECURSIVE normalize_from(_, _)
normalize_from(values, result) ==
  IF values = <<>> THEN result
  ELSE LET val == Head(values)
           ext == Lower(Strip(val))
       IN  IF val = <<>> \/ ext = <<>>
           THEN normalize_from(Tail(values), result)
           ELSE IF Has(result, dot_prefixed(ext))
           THEN normalize_from(Tail(values), result)
           ELSE normalize_from(Tail(values), Append(result, dot_prefixed(ext)))

\* config.py, _normalize_extensions
normalize_extensions(values) == normalize_from(values, <<>>)

\* AppConfig.normalize
normalize(c) ==
  [c EXCEPT !.video_codec = Strip(Lower(@)),
            !.audio_codec = Strip(Lower(@)),
            !.preset = Strip(Lower(@)),
            !.collision_policy = Strip(Lower(@)),
            !.extensions = normalize_extensions(@)]

\* a configuration with every normalized field in normal form and a theme,
\* which normalize leaves alone, that is not
BaseConfig ==
  [video_codec |-> <<"a">>, audio_codec |-> <<"a">>, preset |-> <<"a">>,
   collision_policy |-> <<"a">>, extensions |-> <<>>, theme |-> <<" ", "A">>]

\* the configurations that differ from BaseConfig in one normalized field
Configs ==
  {[BaseConfig EXCEPT !.video_codec = str] : str \in Strs}
    \cup {[BaseConfig EXCEPT !.audio_codec = str] : str \in Strs}
    \cup {[BaseConfig EXCEPT !.preset = str] : str \in Strs}
    \cup {[BaseConfig EXCEPT !.collision_policy = str] : str \in Strs}
    \cup {[BaseConfig EXCEPT !.extensions = l] : l \in ExtLists}

\* ---- ffmpeg.py: build_ffmpeg_command --------------------------------------
\* target_fps = None
NoFps == -1

ArgSets ==
  [video_codec : {"h264", "h265"}, audio_codec : {"aac", "opus"},
   crf : {23}, preset : {"medium"}, audio_bitrate_kbps : {128},
   target_fps : {NoFps, 0, 30}, overwrite : BOOLEAN,
   gpu_type : {"none", "nvidia", "amd", "intel", "macos"},
   use_gpu : BOOLEAN, use_hw_decode : BOOLEAN, copy_audio : BOOLEAN,
   skip_reencode : BOOLEAN, output_path : {"out.mp4", "out.mkv"}]

\* the arguments of test_h264_command
TestArgs ==
  [video_codec |-> "h264", audio_codec |-> "aac", crf |-> 23, preset |-> "medium",
   audio_bitrate_kbps |-> 128, target_fps |-> NoFps, overwrite |-> TRUE,
   gpu_type |-> "none", use_gpu |-> TRUE, use_hw_decode |-> TRUE, copy_audio |-> FALSE,
   skip_reencode |-> FALSE, output_path |-> "out.mp4"]

\* lines 135 and 140-152 with the test of use_gpu left out
codec_map_forced(use_gpu, gpu_type) ==
  CASE gpu_type = "nvidia" -> [h264 |-> "h264_nvenc", h265 |-> "hevc_nvenc"]
    [] gpu_type = "amd" -> [h264 |-> "h264_amf", h265 |-> "hevc_amf"]
    [] gpu_type = "intel" -> [h264 |-> "h264_qsv", h265 |-> "hevc_qsv"]
    [] gpu_type = "macos" -> [h264 |-> "h264_videotoolbox", h265 |-> "hevc_videotoolbox"]
    [] OTHER -> [h264 |-> "libx264", h265 |-> "libx265"]

\* lines 135 and 140-152: codec_map
codec_map(use_gpu, gpu_type) ==
  IF use_gpu /\ gpu_type # "none"
  THEN CASE gpu_type = "nvidia" -> [h264 |-> "h264_nvenc", h265 |-> "hevc_nvenc"]
         [] gpu_type = "amd" -> [h264 |-> "h264_amf", h265 |-> "hevc_amf"]
         [] gpu_type = "intel" -> [h264 |-> "h264_qsv", h265 |-> "hevc_qsv"]
         [] gpu_type = "macos" -> [h264 |-> "h264_videotoolbox", h265 |-> "hevc_videotoolbox"]
         [] OTHER -> [h264 |-> "libx264", h265 |-> "libx265"]
  ELSE [h264 |-> "libx264", h265 |-> "libx265"]

\* lines 139-152: hwaccel, "" for None
hwaccel(use_gpu, gpu_type) ==
  IF use_gpu /\ gpu_type # "none"
  THEN CASE gpu_type = "nvidia" -> "cuda"
         [] gpu_type = "amd" -> "d3d11va"
         [] gpu_type = "intel" -> "qsv"
         [] gpu_type = "macos" -> "videotoolbox"
         [] OTHER -> ""
  ELSE ""

\* line 136
audio_map == [aac |-> "aac", opus |-> "libopus"]

\* ffmpeg.py, build_ffmpeg_command (the input path is "in.mp4")
build_ffmpeg_command(a) ==
  IF a.skip_reencode
  THEN <<"ffmpeg", "-hide_banner", "-nostats", IF a.overwrite THEN "-y" ELSE "-n",
         "-i", "in.mp4", "-c", "copy", "-map_metadata", "0", a.output_path>>
  ELSE LET vcodec == codec_map(a.use_gpu, a.gpu_type)[a.video_codec]
           acodec == IF a.copy_audio THEN "copy" ELSE audio_map[a.audio_codec]
           hw == hwaccel(a.use_gpu, a.gpu_type)
       IN  <<"ffmpeg", "-hide_banner", "-nostats", IF a.overwrite THEN "-y" ELSE "-n">>
           \o (IF hw # "" /\ a.use_hw_decode THEN <<"-hwaccel", hw>> ELSE <<>>)
           \o <<"-i", "in.mp4", "-map_metadata", "0", "-map", "0:v:0?", "-map", "0:a:0?",
                "-c:v", vcodec>>
           \o (IF ~a.copy_audio
               THEN <<"-preset", a.preset, "-crf", ToString(a.crf),
                      "-b:a", ToString(a.audio_bitrate_kbps) \o "k">>
               ELSE <<"-preset", a.preset, "-crf", ToString(a.crf)>>)
           \o (IF a.target_fps # NoFps /\ a.target_fps # 0
               THEN <<"-r", ToString(a.target_fps)>> ELSE <<>>)
           \o <<"-c:a", acodec>>
           \o (IF a.audio_codec = "opus" /\ ~a.copy_audio
               THEN <<"-strict", "experimental">> ELSE <<>>)
           \o (IF a.output_path = "out.mp4" THEN <<"-movflags", "+faststart">> ELSE <<>>)
           \o <<a.output_path>>

\* no configuration is being converted and no command is being built
\* ---- file names: scan_inputs, _suffix_path, _temp_output_path ------------
\* stems of files with a configured extension, below one directory
Stems == {"a", "a_1", "a.partial"}

\* path.with_name(f"{path.stem}_{counter}{path.suffix}")
suffix_candidate(p, k) == p \o "_" \o ToString(k)

\* _suffix_path(path): the first candidate that does not exist
suffix_name(d, p) ==
  LET k == CHOOSE c \in 1..(MaxSuffix + 1) :
             /\ suffix_candidate(p, c) \notin d
             /\ \A j \in 1..(c - 1) : suffix_candidate(p, j) \in d
  IN  suffix_candidate(p, k)

\* path.with_name(f"{path.stem}.partial{counter}{path.suffix}")
temp_candidate(p, k) == p \o ".partial" \o ToString(k)

\* _temp_output_path(path): stem.partial, or the first numbered candidate
\* that does not exist
temp_output_path(d, p) ==
  IF (p \o ".partial") \notin d THEN p \o ".partial"
  ELSE LET k == CHOOSE c \in 1..(MaxSuffix + 1) :
                  /\ temp_candidate(p, c) \notin d
                  /\ \A j \in 1..(c - 1) : temp_candidate(p, j) \in d
       IN  temp_candidate(p, k)

\* lines 156-166: the item of the input with stem p
scan_item(d, pol, p) ==
  [status |-> IF p \in d /\ pol = "skip" THEN STATUS_SKIPPED ELSE STATUS_QUEUED,
   output_path |-> IF p \in d /\ pol = "suffix" THEN suffix_name(d, p) ELSE p]

\* scan_inputs over the inputs ins: out_path = output_root / rel
scan_items(ins, d, pol) == [p \in ins |-> scan_item(d, pol, p)]

\* no scan of file names
NamesIdle ==
  /\ inputs = {} /\ disk = {} /\ collision_policy = "skip"
  /\ items = <<>> /\ temp_output = <<>> /\ stage = <<>>

PureIdle ==
  /\ orig = BaseConfig /\ config = BaseConfig
  /\ data = <<>> /\ loaded = <<>>
  /\ args = TestArgs /\ cmd = <<>>
  /\ NamesIdle

\* ---- initial state: the items returned by scan_inputs --------------------
InitBatch ==
  /\ started = FALSE
  /\ raised = FALSE
  /\ dry_run \in BOOLEAN
  /\ nworkers \in 1..MaxWorkers
  /\ policy \in Policies
  /\ config_ok \in BOOLEAN
  /\ ffmpeg_ok \in BOOLEAN
  /\ diagnostic \in Diagnostics
  /\ fs \in SUBSET Names
  /\ fsnow = fs
  /\ status = [i \in Jobs |-> scan_inputs(fs, policy)[i].status]
  /\ dest = [i \in Jobs |-> scan_inputs(fs, policy)[i].output_path]
  /\ seeded = {i \in Jobs : status[i] = STATUS_QUEUED}
  /\ rescan = <<>>
  /\ retry_called = FALSE
  /\ sink = "none"
  /\ closed = FALSE
  /\ closes = 0
  /\ batch_cb = 0
  /\ mon = "off"
  /\ told = status
  /\ owed = [i \in Jobs |-> IF status[i] \in Terminal THEN 1 ELSE 0]
  /\ progress = [i \in Jobs |-> 0]
  /\ message = [i \in Jobs |-> IF status[i] = STATUS_SKIPPED THEN "output exists" ELSE ""]
  /\ error = [i \in Jobs |-> ""]
  /\ media = [i \in Jobs |-> -1]
  /\ final = [i \in Jobs |-> FALSE]
  /\ at_final = [i \in Jobs |-> "none"]
  /\ temp = [w \in Workers |-> "none"]
  /\ swallowed = [w \in Workers |-> FALSE]
  /\ move_failed = [w \in Workers |-> FALSE]
  /\ there = [i \in Jobs |-> FALSE]
  /\ queue = <<>>
  /\ pause_event = TRUE
  /\ cancel_event = FALSE
  /\ running_processes = [i \in Jobs |-> 0]
  /\ pc = [w \in Workers |-> "off"]
  /\ item = [w \in Workers |-> 0]
  /\ proc = [w \in Workers |-> NoProc]
  /\ ctl = "idle"
  /\ ridx = 0
  /\ updated = {}
  /\ calls \in 0..MaxCalls
  /\ cb = <<>>
  /\ lg = <<>>
  /\ delivered = [i \in Jobs |-> 0]
  /\ afterCancel = FALSE
  /\ repeat = FALSE
  /\ queuedAtCancel = {}
  /\ failedAtCall = {}
  /\ retried = {}

\* a configuration as constructed, arguments not yet used
Init ==
  /\ InitBatch
  /\ orig \in Configs /\ config = orig
  /\ data = <<>> /\ loaded = <<>>
  /\ args \in ArgSets /\ cmd = <<>>
  /\ NamesIdle

\* ---- start_batch ---------------------------------------------------------
\* lines 188-189 raise: ValueError or FFmpegNotFound leaves start_batch
StartRaise ==
  /\ ~started /\ ~raised
  /\ ~Validated
  /\ raised' = TRUE
  /\ UNCHANGED <<started, envvars, monvars, jobvars, queue, pause_event, cancel_event,
                 running_processes, wrkvars, ctlvars>>
  /\ NoEmit /\ NoLog

\* lines 191-256
StartBatch ==
  /\ ~started /\ ~raised
  /\ Validated
  /\ started' = TRUE
  /\ pause_event' = TRUE
  /\ cancel_event' = FALSE
  /\ queue' = SeqOfSet({i \in Jobs : Enqueued(status[i])})
  /\ sink' = "open"
  /\ pc' = [w \in Workers |-> IF w <= nworkers THEN "top" ELSE "off"]
  /\ mon' = "m124"
  /\ UNCHANGED <<raised, envvars, closed, closes, batch_cb, jobvars, running_processes,
                 item, proc, ctlvars>>
  /\ Emits(SeqOfSet({i \in Jobs : ~Enqueued(status[i])}))
  /\ NoLog
  /\ UNCHANGED <<temp, swallowed, move_failed>>

\* ---- worker_loop ---------------------------------------------------------
\* line 213: while not cancel_event.is_set()
WTop(w) ==
  /\ pc[w] = "top"
  /\ pc' = [pc EXCEPT ![w] = IF cancel_event THEN "done" ELSE "gate"]
  \* temp_output of the call that returned is out of scope
  /\ temp' = [temp EXCEPT ![w] = "none"]
  /\ swallowed' = [swallowed EXCEPT ![w] = FALSE]
  /\ move_failed' = [move_failed EXCEPT ![w] = FALSE]
  /\ UNCHANGED <<cfgvars, monvars, jobvars, queue, pause_event, cancel_event, running_processes,
                 item, proc, ctlvars>>
  /\ NoEmit /\ NoLog

\* line 214: pause_event.wait()
WGate(w) ==
  /\ pc[w] = "gate"
  /\ pause_event
  /\ pc' = [pc EXCEPT ![w] = "get"]
  /\ UNCHANGED <<cfgvars, monvars, jobvars, queue, pause_event, cancel_event, running_processes,
                 item, proc, ctlvars>>
  /\ NoEmit /\ NoLog
  /\ UNCHANGED <<temp, swallowed, move_failed>>

\* line 216: item = work_queue.get(timeout=0.2)
WGet(w) ==
  /\ pc[w] = "get"
  /\ queue # <<>>
  /\ item' = [item EXCEPT ![w] = Head(queue)]
  /\ queue' = Tail(queue)
  /\ pc' = [pc EXCEPT ![w] = "p219"]
  /\ UNCHANGED <<cfgvars, monvars, jobvars, pause_event, cancel_event, running_processes, proc, ctlvars>>
  /\ NoEmit /\ NoLog
  /\ UNCHANGED <<temp, swallowed, move_failed>>

\* lines 217-218: queue.Empty after the timeout ends the worker
WEmpty(w) ==
  /\ pc[w] = "get"
  /\ queue = <<>>
  /\ pc' = [pc EXCEPT ![w] = "done"]
  /\ UNCHANGED <<cfgvars, monvars, jobvars, queue, pause_event, cancel_event, running_processes,
                 item, proc, ctlvars>>
  /\ NoEmit /\ NoLog
  /\ UNCHANGED <<temp, swallowed, move_failed>>

\* lines 219-221: a worker that sees the flag after the dequeue drops the item
WP219(w) ==
  /\ pc[w] = "p219"
  /\ IF cancel_event
     THEN /\ pc' = [pc EXCEPT ![w] = "done"]
          /\ item' = [item EXCEPT ![w] = 0]
     ELSE /\ pc' = [pc EXCEPT ![w] = "p268"]
          /\ UNCHANGED item
  /\ UNCHANGED <<cfgvars, monvars, jobvars, queue, pause_event, cancel_event, running_processes,
                 proc, ctlvars>>
  /\ NoEmit /\ NoLog
  /\ UNCHANGED <<temp, swallowed, move_failed>>

\* ---- _process_item -------------------------------------------------------
\* lines 268-271
WP268(w) ==
  /\ pc[w] = "p268"
  /\ IF cancel_event
     THEN /\ status' = [status EXCEPT ![item[w]] = STATUS_CANCELED]
          /\ pc' = [pc EXCEPT ![w] = "top"]
          /\ item' = [item EXCEPT ![w] = 0]
          /\ UNCHANGED progress
          /\ Emits(<<item[w]>>)
     ELSE /\ pc' = [pc EXCEPT ![w] = "p273"]
          /\ UNCHANGED <<status, progress, item>>
          /\ NoEmit
  /\ UNCHANGED <<cfgvars, monvars, message, error, media, final, at_final, there, queue, pause_event, cancel_event,
                 running_processes, proc, ctlvars>>
  /\ NoLog
  /\ UNCHANGED <<temp, swallowed, move_failed>>

\* lines 273-276
MarkRunning(w) ==
  /\ status' = [status EXCEPT ![item[w]] = STATUS_RUNNING]
  /\ progress' = [progress EXCEPT ![item[w]] = 0]

WP273(w) ==
  /\ pc[w] = "p273"
  /\ MarkRunning(w)
  /\ pc' = [pc EXCEPT ![w] = "p288"]
  /\ UNCHANGED <<temp, swallowed, move_failed>>
  /\ Emits(<<item[w]>>)
  /\ UNCHANGED <<cfgvars, monvars, message, error, media, final, at_final, there, queue, pause_event, cancel_event,
                 running_processes, item, proc, ctlvars>>
  /\ NoLog

\* _cleanup_partial with the unlink left out
cleanup_never(t) == {[file |-> t, swallowed |-> FALSE]}

\* _cleanup_partial(path): the file is unlinked if it exists; an OSError of
\* exists() or unlink() is caught and the file stays
cleanup_partial(t) ==
  IF t = "none" THEN {[file |-> "none", swallowed |-> FALSE]}
  ELSE {[file |-> "none", swallowed |-> FALSE], [file |-> t, swallowed |-> TRUE]}

\* the worker's call of _cleanup_partial(temp_output)
Cleanup(w) ==
  \E r \in cleanup_partial(temp[w]) :
    /\ temp' = [temp EXCEPT ![w] = r.file]
    /\ swallowed' = [swallowed EXCEPT ![w] = r.swallowed]

\* ffmpeg.py line 73: RuntimeError(stderr or "ffprobe failed")
probe_raise(stderr) == IF stderr = "" THEN "ffprobe failed" ELSE stderr

\* the prefix that line 305 puts before a diagnostic
Classified(msg) ==
  CASE msg = "invalid data found when processing input" ->
         "File is corrupted or incomplete: invalid data found when processing input"
    [] msg = "moov atom not found" ->
         "File is corrupted or incomplete: moov atom not found"
    [] OTHER -> msg

\* lines 300-308: the classification of a probe failure
probe_error(msg) ==
  IF msg \in {"moov atom not found", "invalid data found when processing input"}
  THEN Classified(msg)
  ELSE msg

\* the text of an OSError of the file system
OSErrors == {"[Errno 13] Permission denied"}

\* line 407: f"Failed to finalize output: {exc}"
finalize_error(exc) == "Failed to finalize output: " \o exc

\* line 393: the joined stderr lines, or "ffmpeg failed" when there are none
encode_error(stderr) == IF stderr = "" THEN "ffmpeg failed" ELSE stderr

\* lines 288-312: the dry run, or the probe of the input
WP288(w) ==
  /\ pc[w] = "p288"
  /\ IF dry_run
     THEN /\ status' = [status EXCEPT ![item[w]] = STATUS_SKIPPED]
          /\ message' = [message EXCEPT ![item[w]] = "dry-run"]
          /\ pc' = [pc EXCEPT ![w] = "top"]
          /\ item' = [item EXCEPT ![w] = 0]
          /\ UNCHANGED <<progress, error, media>>
          /\ Emits(<<item[w]>>)
          /\ LogItem(item[w])
     ELSE /\ \/ \* probe_media raises
                /\ status' = [status EXCEPT ![item[w]] = STATUS_FAILED]
                /\ error' = [error EXCEPT ![item[w]] = probe_error(probe_raise(diagnostic))]
                /\ pc' = [pc EXCEPT ![w] = "p310"]
                /\ UNCHANGED <<progress, media>>
             \/ \* probe_media returns
                \E d \in Durations :
                  /\ media' = [media EXCEPT ![item[w]] = d]
                  /\ progress' = [progress EXCEPT ![item[w]] =
                                    IF d = 0 THEN NoProgress ELSE @]
                  /\ pc' = [pc EXCEPT ![w] = "p334"]
                  /\ UNCHANGED <<status, error>>
          /\ UNCHANGED <<message, item>>
          /\ NoEmit
          /\ NoLog
  /\ UNCHANGED <<cfgvars, monvars, final, at_final, there, queue, pause_event, cancel_event, running_processes,
                 proc, ctlvars>>
  /\ UNCHANGED <<temp, swallowed, move_failed>>

\* line 334: subprocess.Popen; an OSError leaves _process_item and worker_loop
WP334(w) ==
  /\ pc[w] = "p334"
  /\ \/ /\ proc' = [proc EXCEPT ![w] = [NoProc EXCEPT !.alive = TRUE]]
        /\ temp' = [temp EXCEPT ![w] = "partial"]
        /\ pc' = [pc EXCEPT ![w] = "p342"]
     \/ /\ pc' = [pc EXCEPT ![w] = "dead"]
        /\ UNCHANGED <<proc, temp>>
  /\ UNCHANGED <<cfgvars, monvars, jobvars, queue, pause_event, cancel_event, running_processes,
                 item, swallowed, move_failed, ctlvars>>
  /\ NoEmit /\ NoLog

\* lines 342-343
WP342(w) ==
  /\ pc[w] = "p342"
  /\ LockFree
  /\ running_processes' = [running_processes EXCEPT ![item[w]] = w]
  /\ pc' = [pc EXCEPT ![w] = "p356"]
  /\ UNCHANGED <<cfgvars, monvars, jobvars, queue, pause_event, cancel_event, item, proc, ctlvars>>
  /\ NoEmit /\ NoLog
  /\ UNCHANGED <<temp, swallowed, move_failed>>

\* _terminate_process(proc): terminate, bounded wait, kill
Terminate(p) ==
  IF p.alive THEN [p EXCEPT !.alive = FALSE, !.rc = Terminated] ELSE p

\* lines 356-375, one line of the progress stream: an out_time_ms value
WElapsed(w) ==
  /\ pc[w] = "p356"
  /\ proc[w].alive /\ ~proc[w].ended
  /\ UNCHANGED status
  /\ \E k \in 1..Len(Ticks) :
       /\ k >= proc[w].pos
       /\ IF cancel_event
          THEN /\ proc' = [proc EXCEPT ![w] = Terminate(@)]
               /\ UNCHANGED progress
               /\ NoEmit
          ELSE /\ proc' = [proc EXCEPT ![w].pos = k]
               /\ LET p == progress_from_out_time(Ticks[k], media[item[w]])
                  IN IF p # NoProgress /\ p # progress[item[w]]
                     THEN /\ progress' = [progress EXCEPT ![item[w]] = p]
                          /\ Emits(<<item[w]>>)
                     ELSE /\ UNCHANGED progress
                          /\ NoEmit
  /\ UNCHANGED <<cfgvars, monvars, message, error, media, final, at_final, there, queue, pause_event,
                 cancel_event, running_processes, pc, item, ctlvars>>
  /\ NoLog
  /\ UNCHANGED <<temp, swallowed, move_failed>>

\* lines 373-375: the line progress=end
WEnd(w) ==
  /\ pc[w] = "p356"
  /\ proc[w].alive /\ ~proc[w].ended
  /\ UNCHANGED status
  /\ IF cancel_event
     THEN /\ proc' = [proc EXCEPT ![w] = Terminate(@)]
          /\ UNCHANGED progress
          /\ NoEmit
     ELSE /\ proc' = [proc EXCEPT ![w].ended = TRUE]
          /\ progress' = [progress EXCEPT ![item[w]] = 100]
          /\ Emits(<<item[w]>>)
  /\ UNCHANGED <<cfgvars, monvars, message, error, media, final, at_final, there, queue, pause_event,
                 cancel_event, running_processes, pc, item, ctlvars>>
  /\ NoLog
  /\ UNCHANGED <<temp, swallowed, move_failed>>

\* the encoder exits by itself
ProcExit(w) ==
  /\ proc[w].alive
  /\ \E c \in ExitCodes :
       /\ proc' = [proc EXCEPT ![w] = [@ EXCEPT !.alive = FALSE, !.rc = c,
                                                !.natural = (c = 0 /\ ~cancel_event)]]
       /\ temp' = [temp EXCEPT ![w] = IF c = 0 THEN "finished" ELSE @]
  /\ UNCHANGED <<cfgvars, monvars, jobvars, queue, pause_event, cancel_event, running_processes,
                 pc, item, swallowed, move_failed, ctlvars>>
  /\ NoEmit /\ NoLog

\* lines 376-381: end of the stream, proc.wait(), the entry is removed
WP376(w) ==
  /\ pc[w] = "p356"
  /\ ~proc[w].alive
  /\ LockFree
  /\ running_processes' = [running_processes EXCEPT ![item[w]] = 0]
  /\ pc' = [pc EXCEPT ![w] = "p383"]
  /\ UNCHANGED <<cfgvars, monvars, jobvars, queue, pause_event, cancel_event, item, proc, ctlvars>>
  /\ NoEmit /\ NoLog
  /\ UNCHANGED <<temp, swallowed, move_failed>>

\* lines 383-396 with the exit status looked at before the cancellation flag
OutcomeExitFirst(w) ==
  IF proc[w].rc = 0 THEN STATUS_COMPLETED
  ELSE IF cancel_event THEN STATUS_CANCELED
  ELSE STATUS_FAILED

\* lines 383-396 with the status of a successful run never written
OutcomeStuck(w) ==
  IF cancel_event THEN STATUS_CANCELED
  ELSE IF proc[w].rc # 0 THEN STATUS_FAILED
  ELSE STATUS_RUNNING

\* lines 383-396
Outcome(w) ==
  IF cancel_event THEN STATUS_CANCELED
  ELSE IF proc[w].rc # 0 THEN STATUS_FAILED
  ELSE STATUS_COMPLETED

WP383(w) ==
  /\ pc[w] = "p383"
  /\ status' = [status EXCEPT ![item[w]] = Outcome(w)]
  /\ progress' = [progress EXCEPT ![item[w]] =
                    IF Outcome(w) = STATUS_COMPLETED THEN 100 ELSE @]
  /\ IF Outcome(w) = STATUS_FAILED
     THEN error' = [error EXCEPT ![item[w]] = encode_error(diagnostic)]
     ELSE UNCHANGED error
  /\ proc' = [proc EXCEPT ![w] = NoProc]
  /\ IF Outcome(w) = STATUS_CANCELED
     THEN /\ pc' = [pc EXCEPT ![w] = "top"]
          /\ item' = [item EXCEPT ![w] = 0]
          /\ Cleanup(w)
          /\ UNCHANGED move_failed
          /\ Emits(<<item[w]>>)
          /\ LogItem(item[w])
     ELSE /\ pc' = [pc EXCEPT ![w] = "p399"]
          /\ UNCHANGED <<item, temp, swallowed, move_failed>>
          /\ NoEmit
          /\ NoLog
  /\ UNCHANGED <<cfgvars, monvars, message, media, final, at_final, there, queue, pause_event, cancel_event,
                 running_processes, ctlvars>>

\* lines 399-410: the move of the temporary file to the final path, or its removal
WP399(w) ==
  /\ pc[w] = "p399"
  /\ IF status[item[w]] = STATUS_COMPLETED
     THEN \/ \* lines 401-404: unlink under policy overwrite, then
             \* temp_output.replace(output_path), which replaces what is there
             /\ temp[w] # "none"
             /\ final' = [final EXCEPT ![item[w]] = TRUE]
             /\ at_final' = [at_final EXCEPT ![item[w]] = temp[w]]
             /\ there' = [there EXCEPT ![item[w]] = FALSE]
             /\ temp' = [temp EXCEPT ![w] = "none"]
             /\ UNCHANGED <<status, error, swallowed, move_failed>>
          \/ \* lines 405-408: an OSError of the move
             /\ status' = [status EXCEPT ![item[w]] = STATUS_FAILED]
             /\ \E exc \in OSErrors :
                  error' = [error EXCEPT ![item[w]] = finalize_error(exc)]
             /\ move_failed' = [move_failed EXCEPT ![w] = TRUE]
             /\ Cleanup(w)
             /\ UNCHANGED <<final, at_final, there>>
     ELSE /\ Cleanup(w)
          /\ UNCHANGED <<status, error, final, at_final, there, move_failed>>
  /\ pc' = [pc EXCEPT ![w] = "p424"]
  /\ UNCHANGED <<cfgvars, monvars, progress, message, media, queue, pause_event, cancel_event,
                 running_processes, item, proc, ctlvars>>
  /\ NoEmit /\ NoLog

\* lines 310-311 and 424-425: the outcome is reported and logged
WReport(w) ==
  /\ pc[w] \in {"p310", "p424"}
  /\ pc' = [pc EXCEPT ![w] = "top"]
  /\ item' = [item EXCEPT ![w] = 0]
  /\ UNCHANGED <<cfgvars, monvars, jobvars, queue, pause_event, cancel_event, running_processes,
                 proc, ctlvars>>
  /\ Emits(<<item[w]>>)
  /\ LogItem(item[w])
  /\ UNCHANGED <<temp, swallowed, move_failed>>

\* ---- BatchHandle ---------------------------------------------------------
CanCall == started /\ ctl = "idle" /\ calls > 0

Pause ==
  /\ CanCall
  /\ pause_event' = FALSE
  /\ calls' = calls - 1
  /\ UNCHANGED <<cfgvars, monvars, jobvars, queue, cancel_event, running_processes, wrkvars,
                 ctl, ridx, updated, afterCancel, repeat, queuedAtCancel, failedAtCall, retried, retry_called>>
  /\ NoEmit /\ NoLog

Resume ==
  /\ CanCall
  /\ pause_event' = TRUE
  /\ calls' = calls - 1
  /\ UNCHANGED <<cfgvars, monvars, jobvars, queue, cancel_event, running_processes, wrkvars,
                 ctl, ridx, updated, afterCancel, repeat, queuedAtCancel, failedAtCall, retried, retry_called>>
  /\ NoEmit /\ NoLog

\* line 94
CancelSet ==
  /\ CanCall
  /\ cancel_event' = TRUE
  /\ ctl' = "c95"
  /\ calls' = calls - 1
  /\ repeat' = afterCancel
  /\ queuedAtCancel' = queuedAtCancel \cup {i \in Jobs : status[i] = STATUS_QUEUED}
  /\ UNCHANGED <<cfgvars, monvars, jobvars, queue, pause_event, running_processes, wrkvars,
                 ridx, updated, afterCancel, failedAtCall, retried, retry_called>>
  /\ NoEmit /\ NoLog

\* lines 95-97
CancelTerminate ==
  /\ ctl = "c95"
  /\ proc' = [w \in Workers |->
                IF \E i \in Jobs : running_processes[i] = w THEN Terminate(proc[w])
                ELSE proc[w]]
  /\ ctl' = "c100"
  /\ UNCHANGED <<cfgvars, monvars, jobvars, queue, pause_event, cancel_event, running_processes,
                 pc, item, ridx, updated, calls, afterCancel, repeat, queuedAtCancel,
                 failedAtCall, retried, retry_called>>
  /\ NoEmit /\ NoLog
  /\ UNCHANGED <<temp, swallowed, move_failed>>

\* lines 101-106
\* a sweep that also takes the jobs in flight
SweepableInFlight(s) == s \in {STATUS_QUEUED, STATUS_RUNNING}

\* line 103
Sweepable(s) == s = STATUS_QUEUED

CancelSweep ==
  /\ ctl = "c100"
  /\ updated' = {i \in Jobs : Sweepable(status[i])}
  /\ status' = [i \in Jobs |-> IF Sweepable(status[i]) THEN STATUS_CANCELED ELSE status[i]]
  /\ message' = [i \in Jobs |-> IF Sweepable(status[i]) THEN "canceled" ELSE message[i]]
  /\ ctl' = "c107"
  /\ UNCHANGED <<cfgvars, monvars, progress, error, media, final, at_final, there, queue, pause_event, cancel_event,
                 running_processes, wrkvars, ridx, calls, afterCancel, repeat,
                 queuedAtCancel, failedAtCall, retried, retry_called>>
  /\ NoEmit /\ NoLog

\* lines 107-109
CancelReport ==
  /\ ctl = "c107"
  /\ UNCHANGED jobvars
  /\ Emits(SeqOfSet(updated))
  /\ updated' = {}
  /\ ctl' = "idle"
  /\ afterCancel' = TRUE
  /\ repeat' = FALSE
  /\ UNCHANGED <<cfgvars, monvars, queue, pause_event, cancel_event, running_processes,
                 wrkvars, ridx, calls, queuedAtCancel, failedAtCall, retried, retry_called>>
  /\ NoLog

\* line 112: retry_failed takes the lock
RetryFailed ==
  /\ CanCall
  /\ ctl' = "r113"
  /\ ridx' = 1
  /\ calls' = calls - 1
  /\ afterCancel' = FALSE
  /\ failedAtCall' = {i \in Jobs : status[i] = STATUS_FAILED}
  /\ retried' = {}
  /\ retry_called' = TRUE
  /\ UNCHANGED <<cfgvars, monvars, jobvars, queue, pause_event, cancel_event, running_processes,
                 wrkvars, updated, repeat, queuedAtCancel>>
  /\ NoEmit /\ NoLog

\* lines 113-118: one turn of the loop; the lock is released after the last
\* a retry that also takes the canceled jobs
RetryableOrCanceled(s) == s \in {STATUS_FAILED, STATUS_CANCELED}

\* line 114
Retryable(s) == s = STATUS_FAILED

RetryStep ==
  /\ ctl = "r113"
  /\ IF Retryable(status[ridx])
     THEN /\ status' = [status EXCEPT ![ridx] = STATUS_QUEUED]
          /\ progress' = [progress EXCEPT ![ridx] = 0]
          /\ error' = [error EXCEPT ![ridx] = ""]
          /\ queue' = Append(queue, ridx)
          /\ retried' = retried \cup {ridx}
     ELSE UNCHANGED <<status, progress, error, queue, retried>>
  /\ IF ridx = NumJobs
     THEN ctl' = "idle" /\ ridx' = 0
     ELSE ctl' = "r113" /\ ridx' = ridx + 1
  /\ UNCHANGED <<cfgvars, monvars, message, media, final, at_final, there, pause_event, cancel_event,
                 running_processes, wrkvars, updated, calls, afterCancel, repeat,
                 queuedAtCancel, failedAtCall, retry_called>>
  /\ NoEmit /\ NoLog

\* ---- BatchHandle.wait, called by the owner of the handle ------------------
\* lines 124-125: the joins return when every worker thread has ended
WorkersEnded == \A w \in Workers : pc[w] \in {"off", "done", "dead"}

Wait ==
  /\ CanCall
  /\ ctl' = "w124"
  /\ calls' = calls - 1
  /\ UNCHANGED <<cfgvars, monvars, jobvars, queue, pause_event, cancel_event,
                 running_processes, wrkvars, ridx, updated, afterCancel, repeat,
                 queuedAtCancel, failedAtCall, retried, retry_called>>
  /\ NoEmit /\ NoLog

WaitJoin ==
  /\ ctl = "w124"
  /\ WorkersEnded
  /\ ctl' = "w126"
  /\ UNCHANGED <<cfgvars, monvars, jobvars, queue, pause_event, cancel_event,
                 running_processes, wrkvars, ridx, updated, calls, afterCancel, repeat,
                 queuedAtCancel, failedAtCall, retried, retry_called>>
  /\ NoEmit /\ NoLog

\* line 126
WaitCheck ==
  /\ ctl = "w126"
  /\ ctl' = IF closed THEN "idle" ELSE "w127"
  /\ UNCHANGED <<cfgvars, monvars, jobvars, queue, pause_event, cancel_event,
                 running_processes, wrkvars, ridx, updated, calls, afterCancel, repeat,
                 queuedAtCancel, failedAtCall, retried, retry_called>>
  /\ NoEmit /\ NoLog

\* line 127: logger.close()
WaitClose ==
  /\ ctl = "w127"
  /\ sink' = "closed"
  /\ closes' = closes + 1
  /\ ctl' = "w128"
  /\ UNCHANGED <<cfgvars, closed, batch_cb, mon, jobvars, queue, pause_event, cancel_event,
                 running_processes, wrkvars, ridx, updated, calls, afterCancel, repeat,
                 queuedAtCancel, failedAtCall, retried, retry_called>>
  /\ NoEmit /\ NoLog

\* line 128
WaitMark ==
  /\ ctl = "w128"
  /\ closed' = TRUE
  /\ ctl' = "idle"
  /\ UNCHANGED <<cfgvars, sink, closes, batch_cb, mon, jobvars, queue, pause_event,
                 cancel_event, running_processes, wrkvars, ridx, updated, calls, afterCancel,
                 repeat, queuedAtCancel, failedAtCall, retried, retry_called>>
  /\ NoEmit /\ NoLog

\* ---- _monitor_batch -----------------------------------------------------
\* line 448, handle.wait(): lines 124-125
MonJoin ==
  /\ mon = "m124"
  /\ WorkersEnded
  /\ mon' = "m126"
  /\ UNCHANGED <<cfgvars, sink, closed, closes, batch_cb, jobvars, queue, pause_event,
                 cancel_event, running_processes, wrkvars, ctlvars>>
  /\ NoEmit /\ NoLog

\* line 126
MonCheck ==
  /\ mon = "m126"
  /\ mon' = IF closed THEN "m449" ELSE "m127"
  /\ UNCHANGED <<cfgvars, sink, closed, closes, batch_cb, jobvars, queue, pause_event,
                 cancel_event, running_processes, wrkvars, ctlvars>>
  /\ NoEmit /\ NoLog

\* line 127
MonClose ==
  /\ mon = "m127"
  /\ sink' = "closed"
  /\ closes' = closes + 1
  /\ mon' = "m128"
  /\ UNCHANGED <<cfgvars, closed, batch_cb, jobvars, queue, pause_event,
                 cancel_event, running_processes, wrkvars, ctlvars>>
  /\ NoEmit /\ NoLog

\* line 128
MonMark ==
  /\ mon = "m128"
  /\ closed' = TRUE
  /\ mon' = "m449"
  /\ UNCHANGED <<cfgvars, sink, closes, batch_cb, jobvars, queue, pause_event,
                 cancel_event, running_processes, wrkvars, ctlvars>>
  /\ NoEmit /\ NoLog

\* lines 449-451: the summary is built and on_batch_update is invoked
MonSummary ==
  /\ mon = "m449"
  /\ batch_cb' = batch_cb + 1
  /\ mon' = "done"
  /\ UNCHANGED <<cfgvars, sink, closed, closes, jobvars, queue, pause_event,
                 cancel_event, running_processes, wrkvars, ctlvars>>
  /\ NoEmit /\ NoLog

Monitor == MonJoin \/ MonCheck \/ MonClose \/ MonMark \/ MonSummary

\* ---- a second scan_inputs, and a write by somebody else in between -------
Rescan ==
  /\ ~started /\ rescan = <<>>
  /\ rescan' = scan_inputs(fsnow, policy)
  /\ UNCHANGED <<purevars, started, raised, dry_run, nworkers, policy, config_ok, ffmpeg_ok, diagnostic, fs, fsnow,
                 dest, seeded, monvars, jobvars, queue, pause_event, cancel_event,
                 running_processes, wrkvars, ctlvars>>
  /\ NoEmit /\ NoLog

Touch ==
  /\ ~started /\ fsnow = fs
  /\ \E n \in Names \ fsnow : fsnow' = fsnow \cup {n}
  /\ UNCHANGED <<purevars, started, raised, dry_run, nworkers, policy, config_ok, ffmpeg_ok, diagnostic, fs, dest,
                 seeded, rescan, monvars, jobvars, queue, pause_event, cancel_event,
                 running_processes, wrkvars, ctlvars>>
  /\ NoEmit /\ NoLog

NextScan == Rescan \/ Touch

\* ---- the system ----------------------------------------------------------
Worker(w) ==
  \/ WTop(w) \/ WGate(w) \/ WGet(w) \/ WEmpty(w) \/ WP219(w)
  \/ WP268(w) \/ WP273(w) \/ WP288(w) \/ WP334(w) \/ WP342(w)
  \/ WElapsed(w) \/ WEnd(w) \/ ProcExit(w) \/ WP376(w)
  \/ WP383(w) \/ WP399(w) \/ WReport(w)

Next ==
  \/ StartRaise \/ StartBatch
  \/ \E w \in Workers : Worker(w)
  \/ Pause \/ Resume
  \/ CancelSet \/ CancelTerminate \/ CancelSweep \/ CancelReport
  \/ RetryFailed \/ RetryStep
  \/ Wait \/ WaitJoin \/ WaitCheck \/ WaitClose \/ WaitMark
  \/ Monitor

Spec == Init /\ [][Next]_vars

\* one worker (parallel off, or workers = 1), the caller making MaxCalls calls
\* scans under policy skip of an output root holding only mirrored names
InitSkip ==
  /\ InitBatch /\ PureIdle
  /\ policy = "skip"
  /\ fs \subseteq (Jobs \X {0})
  /\ diagnostic = "invalid data found when processing input"

InitSolo == InitSkip /\ nworkers = 1 /\ calls = MaxCalls
SpecSolo == InitSolo /\ [][Next]_vars

\* the same, encoding for real (dry_run off)
InitEncode == InitSolo /\ ~dry_run
SpecEncode == InitEncode /\ [][Next]_vars

\* the full pool on a scan that left one job to do, the caller making one call
InitPool == InitSkip /\ nworkers = MaxWorkers /\ calls = 1 /\ Cardinality(seeded) = 1
SpecPool == InitPool /\ [][Next]_vars

\* scan_inputs alone, over every content of the output root
InitScan ==
  /\ InitBatch /\ PureIdle
  /\ nworkers = 1 /\ calls = 0 /\ ~dry_run /\ Validated
  /\ diagnostic = ""
SpecScan == InitScan /\ [][NextScan]_vars

\* ---- a batch during which somebody else writes into the output root -------
\* a file appears at the output_path of job i, which had none at scan time
Appear(i) ==
  /\ i \in seeded
  /\ ~there[i] /\ at_final[i] = "none"
  /\ there' = [there EXCEPT ![i] = TRUE]
  /\ UNCHANGED <<cfgvars, monvars, status, progress, message, error, media, final, at_final,
                 queue, pause_event, cancel_event, running_processes, wrkvars, ctlvars>>
  /\ NoEmit /\ NoLog

NextShared == Next \/ \E i \in Jobs : Appear(i)

\* one worker encoding for real, the caller making one call
InitShared == InitSkip /\ nworkers = 1 /\ calls = 1 /\ ~dry_run
SpecShared == InitShared /\ [][NextShared]_vars

\* ---- AppConfig and build_ffmpeg_command on their own ---------------------
\* c.normalize()
Normalize ==
  /\ config' = normalize(config)
  /\ UNCHANGED <<orig, data, loaded, args, cmd, namevars>>
  /\ UNCHANGED batchvars

\* data = c.to_dict(): normalize in place, then asdict
ToDict ==
  /\ data = <<>>
  /\ config' = normalize(config)
  /\ data' = <<normalize(config)>>
  /\ UNCHANGED <<orig, loaded, args, cmd, namevars>>
  /\ UNCHANGED batchvars

\* loaded = AppConfig.from_dict(data): AppConfig(**data), then normalize
FromDict ==
  /\ data # <<>> /\ loaded = <<>>
  /\ loaded' = <<normalize(data[1])>>
  /\ UNCHANGED <<orig, config, data, args, cmd, namevars>>
  /\ UNCHANGED batchvars

NextConfig == Normalize \/ ToDict \/ FromDict

\* cmd = build_ffmpeg_command("in.mp4", output_path, **args)
Build ==
  /\ cmd = <<>>
  /\ cmd' = build_ffmpeg_command(args)
  /\ UNCHANGED <<orig, config, data, loaded, args, namevars>>
  /\ UNCHANGED batchvars

NextCommand == Build

\* no batch: an empty output root, nothing started
BatchIdle ==
  /\ InitBatch
  /\ fs = {} /\ policy = "skip" /\ nworkers = 1 /\ calls = 0 /\ ~dry_run /\ Validated
  /\ diagnostic = ""

\* every configuration of Configs, freshly constructed
InitConfig ==
  /\ BatchIdle
  /\ orig \in Configs /\ config = orig
  /\ data = <<>> /\ loaded = <<>>
  /\ args = TestArgs /\ cmd = <<>>
  /\ NamesIdle
SpecConfig == InitConfig /\ [][NextConfig]_vars

\* every argument combination of ArgSets
InitCommand ==
  /\ BatchIdle
  /\ orig = BaseConfig /\ config = BaseConfig
  /\ data = <<>> /\ loaded = <<>>
  /\ args \in ArgSets /\ cmd = <<>>
  /\ NamesIdle
SpecCommand == InitCommand /\ [][NextCommand]_vars

\* ---- scan_inputs and _process_item over file names -----------------------
ConfigIdle ==
  /\ orig = BaseConfig /\ config = BaseConfig
  /\ data = <<>> /\ loaded = <<>>
  /\ args = TestArgs /\ cmd = <<>>

\* items = scan_inputs()
Scan ==
  /\ items = <<>>
  /\ items' = scan_items(inputs, disk, collision_policy)
  /\ stage' = [p \in inputs |-> scan_item(disk, collision_policy, p).status]
  /\ temp_output' = [p \in inputs |-> ""]
  /\ UNCHANGED <<inputs, disk, collision_policy>>
  /\ UNCHANGED <<orig, config, data, loaded, args, cmd>>
  /\ UNCHANGED batchvars

\* lines 273-281 for the job of input p: Running, then
\* temp_output = _temp_output_path(output_path); at most MaxWorkers jobs run
Choose(p) ==
  /\ items # <<>> /\ p \in inputs /\ stage[p] = STATUS_QUEUED
  /\ Cardinality({q \in inputs : stage[q] \in {STATUS_RUNNING, "encoded"}}) < MaxWorkers
  /\ stage' = [stage EXCEPT ![p] = STATUS_RUNNING]
  /\ temp_output' = [temp_output EXCEPT ![p] = temp_output_path(disk, items[p].output_path)]
  /\ UNCHANGED <<inputs, disk, collision_policy, items>>
  /\ UNCHANGED <<orig, config, data, loaded, args, cmd>>
  /\ UNCHANGED batchvars

\* lines 334-396: ffmpeg runs with -y under overwrite and -n otherwise; with -n
\* it refuses a temp_output that exists, and the failure path removes the file
Encode(p) ==
  /\ items # <<>> /\ p \in inputs /\ stage[p] = STATUS_RUNNING
  /\ IF temp_output[p] \in disk /\ collision_policy # "overwrite"
     THEN /\ stage' = [stage EXCEPT ![p] = STATUS_FAILED]
          /\ disk' = disk \ {temp_output[p]}
     ELSE /\ stage' = [stage EXCEPT ![p] = "encoded"]
          /\ disk' = disk \cup {temp_output[p]}
  /\ UNCHANGED <<inputs, collision_policy, items, temp_output>>
  /\ UNCHANGED <<orig, config, data, loaded, args, cmd>>
  /\ UNCHANGED batchvars

\* lines 398-408: temp_output.replace(output_path), OSError when temp_output
\* is no longer there
Finalize(p) ==
  /\ items # <<>> /\ p \in inputs /\ stage[p] = "encoded"
  /\ IF temp_output[p] \in disk
     THEN /\ stage' = [stage EXCEPT ![p] = STATUS_COMPLETED]
          /\ disk' = (disk \ {temp_output[p]}) \cup {items[p].output_path}
     ELSE /\ stage' = [stage EXCEPT ![p] = STATUS_FAILED]
          /\ disk' = disk
  /\ UNCHANGED <<inputs, collision_policy, items, temp_output>>
  /\ UNCHANGED <<orig, config, data, loaded, args, cmd>>
  /\ UNCHANGED batchvars

NextNames ==
  \/ Scan
  \/ \E p \in Stems : Choose(p)
  \/ \E p \in Stems : Encode(p)
  \/ \E p \in Stems : Finalize(p)

\* every set of inputs and every content of the output root over Stems
InitNames ==
  /\ BatchIdle /\ ConfigIdle
  /\ inputs \in (SUBSET Stems) \ {{}}
  /\ disk \in SUBSET Stems
  /\ collision_policy \in Policies
  /\ items = <<>> /\ temp_output = <<>> /\ stage = <<>>
SpecNames == InitNames /\ [][NextNames]_vars

\* ---- properties ----------------------------------------------------------
Running == {i \in Jobs : status[i] = STATUS_RUNNING}

\* a worker is inside _process_item for its item, from line 268 to its return
Processing(w) ==
  pc[w] \in {"p268", "p273", "p288", "p310", "p334", "p342", "p356", "p383", "p399", "p424"}

\* the step is one of the thread calling the BatchHandle
CallerStep == ctl' # ctl \/ ridx' # ridx \/ calls' # calls

\* C1: with N workers, at most N jobs have status Running in every reachable
\* state, whatever the caller does (pause, resume, cancel, retry_failed).
C1_BoundedRunning == Cardinality(Running) <= nworkers

\* C1 witness: the pool is saturated (N jobs Running) while another job waits
\* in the queue and the caller has already made a call.
C1_Witness ==
  /\ Cardinality(Running) = nworkers
  /\ queue # <<>>
  /\ calls < MaxCalls

\* C2: no two workers process the same job at the same time: a job is never
\* handed to a second worker (re-enqueued and dequeued) while a first worker is
\* still inside _process_item for it, up to its emit and log of the outcome.
C2_SingleOwner ==
  \A w1, w2 \in Workers :
    (w1 # w2 /\ Processing(w1) /\ Processing(w2)) => item[w1] # item[w2]

\* C3: every change of a job's status is one of the listed transitions.
ListedTransitions ==
  { <<STATUS_QUEUED, STATUS_RUNNING>>, <<STATUS_QUEUED, STATUS_CANCELED>>,
    <<STATUS_RUNNING, STATUS_COMPLETED>>, <<STATUS_RUNNING, STATUS_FAILED>>,
    <<STATUS_RUNNING, STATUS_CANCELED>>, <<STATUS_FAILED, STATUS_QUEUED>> }

C3_ListedOnly ==
  [][\A i \in Jobs : status'[i] # status[i] => <<status[i], status'[i]>> \in ListedTransitions]_vars

\* C4: a Completed, Skipped or Canceled job never changes status or progress
\* again, and a Failed job changes them only in a step of retry_failed().
C4_TerminalFrozen ==
  [][\A i \in Jobs :
       /\ status[i] \in {STATUS_COMPLETED, STATUS_SKIPPED, STATUS_CANCELED}
            => (status'[i] = status[i] /\ progress'[i] = progress[i])
       /\ (status[i] = STATUS_FAILED /\ (status'[i] # status[i] \/ progress'[i] # progress[i]))
            => (ctl = "r113" /\ ridx = i /\ ridx' # ridx)]_vars

Numeric(p) == p # NoProgress

\* C5: while a job is Running its progress never decreases, and the progress
\* values the item callback receives for it are non-decreasing, for every
\* cumulative stream of out_time_ms values, with or without the end marker.
C5_ProgressMonotone ==
  [][\A i \in Jobs :
       (status[i] = STATUS_RUNNING /\ status'[i] = STATUS_RUNNING) =>
         /\ (Numeric(progress[i]) /\ Numeric(progress'[i])) => progress'[i] >= progress[i]
         /\ \A k \in 1..Len(cb') :
              (cb'[k].id = i /\ Numeric(delivered[i]) /\ Numeric(cb'[k].progress))
                => cb'[k].progress >= delivered[i]]_vars

\* C5 witness: a Running job whose callback has just received a percentage
\* above an earlier one, from an out_time_ms line.
C5_Witness ==
  \E i \in Jobs :
    /\ status[i] = STATUS_RUNNING
    /\ cb = <<[id |-> i, status |-> STATUS_RUNNING, progress |-> 10]>>
    /\ delivered[i] = 10

\* C6: once cancel() has returned (and retry_failed() was not called after
\* it) no job is Queued, and when the workers have ended every job is
\* Completed, Failed, Skipped or Canceled.
C6_CancelSettles ==
  afterCancel =>
    /\ \A i \in Jobs : status[i] # STATUS_QUEUED
    /\ WorkersEnded => \A i \in Jobs : status[i] \in Terminal

\* C7: a job that was Queued when cancel() set the flag never becomes Running
\* and no external process is started for it; when cancel() has returned it is
\* Canceled.
C7_QueuedNeverStarts ==
  \A i \in queuedAtCancel :
    /\ status[i] \in {STATUS_QUEUED, STATUS_CANCELED}
    /\ \A w \in Workers : item[w] = i => ~proc[w].alive
    /\ afterCancel => status[i] = STATUS_CANCELED

\* the step is one of cancel(): lines 94, 95-97, 100-106 or 107-109
CancelStep == ctl' # ctl /\ (ctl' \in {"c95", "c100", "c107"} \/ ctl = "c107")

RepeatStep == CallerStep /\ (repeat \/ repeat')

\* C9: cancel() is idempotent: a cancel() called after a cancel() has returned
\* changes no job's status, progress, message or error, invokes no item
\* callback, and leaves the queue, the registry and both events as they were.
C9_CancelIdempotent ==
  [][RepeatStep =>
       /\ UNCHANGED <<status, progress, message, error, queue, running_processes,
                      cancel_event, pause_event>>
       /\ cb' = <<>>]_vars

\* C9 witness: the second cancel() has swept and is about to return, while a
\* job is still Running.
C9_Witness ==
  /\ repeat
  /\ ctl = "c107"
  /\ Running # {}

\* the step is a turn of retry_failed's loop, at item ridx
RetryTurn == ctl = "r113" /\ ridx' # ridx

\* C10 as stated: the jobs retry_failed() changes are exactly those that were
\* Failed when it was called.
C10_ExactlyFailedAtCall ==
  [][(RetryTurn /\ ctl' = "idle") => retried' = failedAtCall]_vars

\* C10 amended: retry_failed() changes exactly the jobs that are Failed when
\* its loop reaches them, which include every job Failed at the call: such a
\* job becomes Queued with progress 0 and empty error and is appended once to
\* the queue, which never holds a job twice; every other job, the registry and
\* both events are left unchanged.
C10_RetryFrame ==
  [][/\ RetryTurn =>
          /\ status[ridx] = STATUS_FAILED =>
               /\ status'[ridx] = STATUS_QUEUED
               /\ progress'[ridx] = 0
               /\ error'[ridx] = ""
               /\ queue' = Append(queue, ridx)
               /\ \A k \in 1..Len(queue) : queue[k] # ridx
          /\ status[ridx] # STATUS_FAILED =>
               /\ status'[ridx] = status[ridx]
               /\ progress'[ridx] = progress[ridx]
               /\ error'[ridx] = error[ridx]
               /\ queue' = queue
          /\ \A j \in Jobs \ {ridx} :
               /\ status'[j] = status[j]
               /\ progress'[j] = progress[j]
               /\ error'[j] = error[j]
          /\ UNCHANGED <<message, running_processes, cancel_event, pause_event>>
          /\ ctl' = "idle" => failedAtCall \subseteq retried'
     /\ (CallerStep /\ ctl' = "r113" /\ ctl = "idle") =>
          UNCHANGED <<status, progress, error, message, queue, running_processes,
                      cancel_event, pause_event>>]_vars

\* C10 witness: retry_failed() has returned having re-queued a job, which now
\* waits in the queue as Queued with progress 0 and no error.
C10_Witness ==
  /\ ctl = "idle"
  /\ retried # {}
  /\ \E i \in retried :
       /\ status[i] = STATUS_QUEUED
       /\ progress[i] = 0
       /\ error[i] = ""
       /\ \E k \in 1..Len(queue) : queue[k] = i

\* the item scan_inputs returned for job i, as start_batch receives it
AsScanned(i) ==
  /\ status[i] = (IF i \in seeded THEN STATUS_QUEUED ELSE STATUS_SKIPPED)
  /\ progress[i] = 0
  /\ message[i] = (IF i \in seeded THEN "" ELSE "output exists")
  /\ error[i] = ""
  /\ media[i] = -1
  /\ ~final[i]

InQueue(i) == \E k \in 1..Len(queue) : queue[k] = i

\* C11: a job scan marked Skipped (policy skip, destination exists) is never
\* enqueued, never Running, never held by a worker, never has a process, and
\* keeps every field under start_batch, the workers, cancel() and
\* retry_failed(); start_batch reports it through the item callback and seeds
\* the queue with exactly the jobs that were Queued, which are the only jobs a
\* worker ever takes.
C11_SkippedUntouched ==
  [][/\ \A i \in Jobs \ seeded :
          /\ AsScanned(i)'
          /\ ~InQueue(i)'
          /\ running_processes'[i] = 0
          /\ \A w \in Workers : item'[w] # i
     /\ (started' /\ ~started) =>
          /\ queue' = SeqOfSet(seeded)
          /\ cb' = EmitAll(SeqOfSet(Jobs \ seeded), status, progress)
          /\ lg' = <<>>
     /\ \A w \in Workers : item'[w] # 0 => item'[w] \in seeded]_vars

\* C11 witness: a batch with a job skipped by scan and a job that was
\* encoded to Completed, on which cancel() and retry_failed() were both called.
C11_Witness ==
  /\ started /\ WorkersEnded
  /\ seeded # Jobs
  /\ \E i \in seeded : status[i] = STATUS_COMPLETED /\ final[i]
  /\ cancel_event /\ retry_called /\ ctl = "idle"

C13_RaisesBeforeEffects ==
  (~config_ok \/ ~ffmpeg_ok) =>
    /\ ~started
    /\ \A i \in Jobs : AsScanned(i)
    /\ queue = <<>>
    /\ \A w \in Workers : pc[w] = "off" /\ item[w] = 0
    /\ mon = "off"
    /\ sink = "none"
    /\ cb = <<>> /\ lg = <<>>
    /\ told = status

\* C13 witness: start_batch has raised because the toolchain was not found,
\* for a scan that returned both a Queued and a Skipped job.
C13_Witness ==
  /\ raised
  /\ config_ok /\ ~ffmpeg_ok
  /\ seeded # {} /\ seeded # Jobs

\* C14: in a batch never canceled (and with no retry_failed()), when the
\* workers have ended every job seeded as Queued has a terminal status: a
\* job that fails stops neither its own worker nor another one.
C14_FailureIsolated ==
  (started /\ WorkersEnded /\ ~cancel_event /\ ~retry_called) =>
    \A i \in seeded : status[i] \in Terminal

\* C15: when the encoder cannot be started the error stays inside the job's
\* processing: the job is Failed with the launch error in its error field and
\* has been reported as Failed, and is never left Running.
C15_LaunchFailureCaptured ==
  \A w \in Workers :
    pc[w] = "dead" =>
      /\ status[item[w]] = STATUS_FAILED
      /\ error[item[w]] # ""
      /\ told[item[w]] = STATUS_FAILED

\* C16: between the return of pause() and the call of resume() no worker
\* dequeues a job and no job goes from Queued to Running.
C16_PauseHolds ==
  [][(~pause_event /\ ~pause_event') =>
       /\ Len(queue') >= Len(queue)
       /\ \A i \in Jobs : ~(status[i] = STATUS_QUEUED /\ status'[i] = STATUS_RUNNING)]_vars

\* C17: logger.close() is invoked at most once, whatever the interleaving of
\* the monitor's wait() with the caller's, and only when every worker thread
\* has ended.
C17_ClosedOnce ==
  /\ closes <= 1
  /\ closes > 0 => WorkersEnded

\* C18: on_batch_update is invoked at most once and only when every worker
\* thread has ended, and a batch on which cancel() has returned never comes
\* to rest (no thread able to take a step) without it having been invoked.
C18_BatchReported ==
  /\ batch_cb <= 1
  /\ batch_cb > 0 => WorkersEnded
  /\ (cancel_event /\ ctl = "idle" /\ ~ENABLED Next) => batch_cb = 1

\* C19: every terminal transition of a job is matched by exactly one log
\* record: when no worker holds the job and no BatchHandle call is in
\* progress, the job is owed no record and has none in excess.
C19_LoggedOnce ==
  \A i \in Jobs :
    (started /\ ctl = "idle" /\ \A w \in Workers : item[w] # i) => owed[i] = 0

\* C20: every change of a job's status or progress is followed by an item
\* callback that carries it: when no worker holds the job and no BatchHandle
\* call is in progress, the last callback for the job showed its current
\* status and progress.
C20_ChangesReported ==
  \A i \in Jobs :
    (ctl = "idle" /\ \A w \in Workers : item[w] # i) =>
      /\ told[i] = status[i]
      /\ delivered[i] = progress[i]

\* a step in which worker w moves its temp file to the final path of job i
\* (line 404)
Moves(w, i) ==
  /\ pc[w] = "p399" /\ pc'[w] = "p424"
  /\ item[w] = i
  /\ at_final'[i] = temp[w]
  /\ temp'[w] = "none"

\* C21: the final path of a job is created or replaced only by the move of
\* the finished temp file of a process that exited with status 0, and while a
\* job is Running, Failed or Canceled nothing written by its encode is at its
\* final path.
C21_FinalOnlyByMove ==
  /\ [](\A i \in Jobs :
         status[i] \in {STATUS_RUNNING, STATUS_FAILED, STATUS_CANCELED} =>
           at_final[i] = "none")
  /\ [][\A i \in Jobs :
          at_final'[i] # at_final[i] =>
            \E w \in Workers : Moves(w, i) /\ temp[w] = "finished"]_vars

\* worker w reads an out_time_ms line of the progress stream in this step
ReadsTick(w) ==
  /\ pc[w] = "p356" /\ ~cancel_event
  /\ proc'[w].pos # proc[w].pos

\* worker w reads the line progress=end in this step
ReadsEnd(w) ==
  /\ pc[w] = "p356" /\ ~cancel_event
  /\ ~proc[w].ended /\ proc'[w].ended

\* C22: for a known positive duration of D seconds an elapsed-time event of
\* e microseconds sets the percentage to
\* min(100, max(0, floor(e * 100 / (D * 1000000)))), and the end-of-stream
\* marker sets it to 100.
C22_ExactPercent ==
  [][\A w \in Workers :
       /\ (ReadsTick(w) /\ media[item[w]] > 0) =>
            progress'[item[w]] =
              Min(100, Max(0, (Ticks[proc'[w].pos] * 100) \div (media[item[w]] * 1000000)))
       /\ (ReadsEnd(w) /\ media[item[w]] > 0) => progress'[item[w]] = 100]_vars

\* C23: a progress update of a Running job is emitted only when the
\* percentage changes: the callback of a worker that read a line of the
\* progress stream never carries the percentage that the previous callback
\* for the job carried.
C23_EmitOnChange ==
  [][\A w \in Workers :
       ((ReadsTick(w) \/ ReadsEnd(w)) /\ cb' # <<>>) =>
         cb'[1].progress # delivered[item[w]]]_vars

\* worker w is past the probe of its job (lines 296-299) in _process_item
PastProbe(w) == pc[w] \in {"p334", "p342", "p356", "p383", "p399", "p424"}

\* C24: if the probe yields no duration, the progress of the job is unknown
\* for the rest of that run, through every progress event, the end-of-stream
\* marker and the terminal transition.
C24_UnknownStaysUnknown ==
  \A w \in Workers :
    (PastProbe(w) /\ media[item[w]] = 0) => progress[item[w]] = NoProgress

\* the error message err contains the diagnostic text msg
Carries(err, msg) == err \in {msg, Classified(msg)}

\* C25: a job whose probe or encoder failed with the diagnostic "invalid data
\* found when processing input" is Failed with an error message that carries
\* the corruption classification.
C25_CorruptionClassified ==
  \A i \in Jobs :
    (status[i] = STATUS_FAILED
       /\ Carries(error[i], "invalid data found when processing input")) =>
      error[i] = Classified("invalid data found when processing input")

\* the sequence q holds the jobs that are Queued, each once, in scan order
InScanOrder(q) ==
  /\ \A k \in 1..Len(q) : \A l \in 1..Len(q) : k < l => q[k] < q[l]
  /\ {q[k] : k \in 1..Len(q)} = {i \in Jobs : status[i] = STATUS_QUEUED}

\* the step leaves the queue alone, takes its head, adds at its tail, or is
\* the seeding of start_batch
FifoStep ==
  \/ queue' = queue
  \/ queue # <<>> /\ queue' = Tail(queue)
  \/ \E i \in Jobs : queue' = Append(queue, i)
  \/ ~started /\ started' /\ InScanOrder(queue')

\* C26: with one worker, jobs become Running one at a time in the order they
\* were enqueued (scan order for the seed, then retry order): only the first
\* worker runs, the queue is first-in first-out, the job a worker takes is
\* the head of the queue, and a job becomes Running only in the hands of that
\* worker while no other job is Running.
C26_SequentialOrder ==
  [][/\ FifoStep
     /\ \A w \in Workers :
          /\ w > 1 => pc'[w] = "off"
          /\ (item'[w] # item[w] /\ item'[w] # 0) =>
               queue # <<>> /\ item'[w] = Head(queue) /\ queue' = Tail(queue)
     /\ \A i \in Jobs :
          (status[i] # STATUS_RUNNING /\ status'[i] = STATUS_RUNNING) =>
            /\ item[1] = i
            /\ \A j \in Jobs \ {i} : status[j] # STATUS_RUNNING]_vars

\* a job that was retried behind the other job is Running after that job
\* completed
C26_Witness ==
  \E i \in retried : \E j \in Jobs \ {i} :
    /\ status[i] = STATUS_RUNNING
    /\ status[j] = STATUS_COMPLETED
    /\ queue = <<>>

\* worker w holds a started, not yet reaped external process for job i
HoldsProcess(w, i) == item[w] = i /\ pc[w] \in {"p342", "p356"}

\* C29: the process registry has an entry for a job if and only if the job
\* is Running and a worker holds a started, not yet reaped external process
\* for it.
C29_RegistryExact ==
  \A i \in Jobs :
    running_processes[i] # 0 <=>
      (status[i] = STATUS_RUNNING /\ \E w \in Workers : HoldsProcess(w, i))

\* worker w reports, in this step, the job it had started to encode as
\* Failed or Canceled (lines 387-389 and 424-425)
ReportsEnded(w) ==
  \/ /\ pc[w] = "p424" /\ pc'[w] = "top"
     /\ status[item[w]] \in {STATUS_FAILED, STATUS_CANCELED}
  \/ pc[w] = "p383" /\ pc'[w] = "top"

\* the deletion of worker w's temp file fails in this step, and the step
\* writes the status and error it writes when the deletion succeeds
SwallowedQuietly(w) ==
  (swallowed'[w] /\ ~swallowed[w]) =>
    /\ pc'[w] \in {"top", "p424"}
    /\ IF pc[w] = "p383"
       THEN /\ status'[item[w]] = STATUS_CANCELED
            /\ error'[item[w]] = error[item[w]]
       ELSE IF status[item[w]] = STATUS_COMPLETED
       THEN /\ status'[item[w]] = STATUS_FAILED
            /\ \E exc \in OSErrors : error'[item[w]] = finalize_error(exc)
       ELSE /\ status'[item[w]] = status[item[w]]
            /\ error'[item[w]] = error[item[w]]

\* C30 as stated: when a job that started encoding ends Failed or Canceled,
\* its temp file no longer exists once the terminal status is reported, and
\* a failure of the deletion never raises and never changes status or error.
C30_TempGone ==
  [][\A w \in Workers :
       /\ ReportsEnded(w) => temp'[w] = "none"
       /\ SwallowedQuietly(w)]_vars

\* C30, amended: when a job that started encoding is reported Failed or
\* Canceled, its temp file has been deleted unless the deletion itself
\* failed, in which case the file remains; a failure of the deletion never
\* raises and never changes status or error.
C30_BestEffortCleanup ==
  [][\A w \in Workers :
       /\ ReportsEnded(w) => (temp'[w] = "none" \/ swallowed'[w])
       /\ SwallowedQuietly(w)]_vars

\* a Failed job is about to be reported while its temp file is still there,
\* the deletion having failed
C30_Witness ==
  \E w \in Workers :
    /\ pc[w] = "p424"
    /\ status[item[w]] = STATUS_FAILED
    /\ swallowed[w] /\ temp[w] # "none"

\* the string has no upper-case letter and no white space at either end
Trimmed(str) ==
  /\ \A k \in 1..Len(str) : str[k] # "A"
  /\ str # <<>> => (str[1] # " " /\ str[Len(str)] # " ")

\* res is str lower-cased, with nothing but white space removed at its ends
LowerTrimOf(res, str) ==
  /\ Trimmed(res)
  /\ \E a \in 1..(Len(str) + 1) : \E b \in 0..Len(str) :
       /\ res = SubSeq(Lower(str), a, b)
       /\ \A k \in 1..Len(str) : (k < a \/ k > b) => str[k] = " "

\* the extension that a listed value stands for: lower-cased, trimmed, with
\* a leading dot; <<>> for a value that is empty or blank
CanonExt(val) ==
  LET t == CHOOSE r \in Strs : LowerTrimOf(r, val)
  IN  IF t = <<>> THEN <<>> ELSE IF t[1] = "." THEN t ELSE <<".">> \o t

\* the position of the first value of values that stands for ext
FirstAt(values, ext) ==
  CHOOSE k \in 1..Len(values) :
    CanonExt(values[k]) = ext /\ \A l \in 1..(k - 1) : CanonExt(values[l]) # ext

\* res lists the extensions that the values stand for, each once, in the
\* order of their first occurrence
FirstOccurrences(res, values) ==
  /\ {res[k] : k \in 1..Len(res)} = {CanonExt(values[k]) : k \in 1..Len(values)} \ {<<>>}
  /\ \A k \in 1..Len(res) : \A l \in 1..Len(res) :
       k < l => FirstAt(values, res[k]) < FirstAt(values, res[l])

\* c2 is c1 normalized, as the text of the claim describes it
NormalizedOf(c2, c1) ==
  /\ LowerTrimOf(c2.video_codec, c1.video_codec)
  /\ LowerTrimOf(c2.audio_codec, c1.audio_codec)
  /\ LowerTrimOf(c2.preset, c1.preset)
  /\ LowerTrimOf(c2.collision_policy, c1.collision_policy)
  /\ FirstOccurrences(c2.extensions, c1.extensions)
  /\ c2.theme = c1.theme

\* C27: AppConfig.from_dict(c.to_dict()) has the field values of c after
\* normalization (codec, preset and collision policy lower-cased and trimmed;
\* extensions lower-cased, dot-prefixed and de-duplicated in first-occurrence
\* order), and applying normalize twice equals applying it once.
C27_RoundTrip ==
  /\ loaded # <<>> => (loaded[1] = normalize(orig) /\ NormalizedOf(loaded[1], orig))
  /\ data # <<>> => data[1] = config
  /\ normalize(normalize(config)) = normalize(config)
  /\ config \in {orig, normalize(orig)}

\* a configuration with a duplicated, undotted, upper-case extension has
\* made the round trip
C27_Witness ==
  /\ loaded # <<>>
  /\ Len(orig.extensions) = 2
  /\ Len(loaded[1].extensions) = 1
  /\ orig.extensions[1] # orig.extensions[2]
  /\ \E k \in 1..Len(orig.extensions[1]) : orig.extensions[1][k] = "A"

\* an element of the list
Contains(list, x) == \E k \in 1..Len(list) : list[k] = x

\* validate, lines 173-176 and 182-183, on the arguments
ValidCodecs(a) ==
  /\ a.video_codec \in {"h264", "h265"}
  /\ a.audio_codec \in {"aac", "opus"}
  /\ a.target_fps = NoFps \/ a.target_fps > 0

\* GPU acceleration is off
GpuOff(a) == ~a.use_gpu \/ a.gpu_type = "none"

\* C28: for every valid codec configuration with GPU acceleration off and
\* skip_reencode off, the argument list contains the encoder mapped from the
\* video codec (h264 to libx264, h265 to libx265), contains the mapped audio
\* encoder (aac to aac, opus to libopus) unless audio is copied, and contains
\* -r followed by the frame rate exactly when target_fps is set.
C28_CommandArguments ==
  (cmd # <<>> /\ ValidCodecs(args) /\ GpuOff(args) /\ ~args.skip_reencode) =>
    /\ args.video_codec = "h264" => Contains(cmd, "libx264")
    /\ args.video_codec = "h265" => Contains(cmd, "libx265")
    /\ (~args.copy_audio /\ args.audio_codec = "aac") => Contains(cmd, "aac")
    /\ (~args.copy_audio /\ args.audio_codec = "opus") => Contains(cmd, "libopus")
    /\ (args.target_fps # NoFps) <=>
         \E k \in 1..(Len(cmd) - 1) :
           cmd[k] = "-r" /\ cmd[k + 1] = ToString(args.target_fps)
    /\ (args.target_fps = NoFps) => ~Contains(cmd, "-r")

\* the command of test_h265_command, with a GPU present but not used
C28_Witness ==
  /\ cmd # <<>>
  /\ args.video_codec = "h265" /\ args.audio_codec = "opus" /\ args.target_fps = 30
  /\ ~args.skip_reencode /\ ~args.copy_audio
  /\ ~args.use_gpu /\ args.gpu_type = "nvidia"
  /\ Contains(cmd, "libx265")

\* the move of worker w's temp file to the final path fails in this step
MoveFails(w) == move_failed'[w] /\ ~move_failed[w]

\* worker w reports the job whose move failed (lines 424-425)
ReportsMoveFailure(w) == move_failed[w] /\ pc[w] = "p424" /\ pc'[w] = "top"

\* neither the callback nor the log record of the step shows job i Completed
NotShownCompleted(i) ==
  /\ \A k \in 1..Len(cb') : cb'[k].id = i => cb'[k].status # STATUS_COMPLETED
  /\ \A k \in 1..Len(lg') : lg'[k].id = i => lg'[k].status # STATUS_COMPLETED

\* the failing move makes the job Failed with the filesystem error in its text
DemotedToFailed(w) ==
  MoveFails(w) =>
    /\ status'[item[w]] = STATUS_FAILED
    /\ \E exc \in OSErrors : error'[item[w]] = finalize_error(exc)

\* C31: if the move of the temp file to the final destination fails after
\* the process exited with status 0, the job becomes Failed with an error
\* text carrying the filesystem error, the report of that failure does not
\* show the job Completed through the item callback or the log, and the temp
\* file is removed (a removal that failed with a swallowed error is let pass).
C31_MoveFailureReported ==
  [][\A w \in Workers :
       /\ DemotedToFailed(w)
       /\ ReportsMoveFailure(w) =>
            (NotShownCompleted(item[w]) /\ (temp[w] = "none" \/ swallowed[w]))]_vars

\* cancel() has set the flag and returned; the caller is idle or inside the
\* joins of wait()
CancelReturned == cancel_event /\ ctl \in {"idle", "w124"}

\* C32: after cancel() every worker thread terminates, so is_running()
\* becomes false, wait() returns and the batch-complete callback fires,
\* whatever the state of the pause gate: a canceled batch never comes to rest
\* (no thread able to take a step) with a worker thread alive, a wait()
\* blocked or the callback not invoked.
C32_CancelTerminates ==
  (CancelReturned /\ ~ENABLED Next) =>
    /\ WorkersEnded
    /\ ctl = "idle"
    /\ batch_cb = 1

\* worker w's thread is alive
Alive(w) == pc[w] \notin {"off", "done", "dead"}

\* C33: after retry_failed() has re-enqueued a Failed job in a batch that is
\* not canceled, some worker dequeues it and drives it to a terminal status,
\* whether or not the workers had found the queue empty before: a retried
\* job never waits in the queue of a batch that is not canceled while no
\* worker thread is alive.
C33_RetriedIsServed ==
  \A i \in retried :
    (~cancel_event /\ ctl = "idle" /\ status[i] = STATUS_QUEUED /\ InQueue(i)) =>
      \E w \in Workers : Alive(w)

\* C36: every record passed to the logging interface carries a terminal
\* status (completed, failed, skipped or canceled), never queued or running,
\* and the status logged is the status of the job at that moment.
C36_LogsTerminal ==
  [][\A k \in 1..Len(lg') :
       /\ lg'[k].status \in Terminal
       /\ lg'[k].status = status'[lg'[k].id]]_vars

\* C37: whenever all worker threads have terminated, no job is Running and
\* the process registry is empty; and if neither cancel() nor retry_failed()
\* was called, no job is Queued either.
C37_EndedMeansSettled ==
  (started /\ WorkersEnded) =>
    /\ \A i \in Jobs : status[i] # STATUS_RUNNING /\ running_processes[i] = 0
    /\ (~cancel_event /\ ~retry_called) => \A i \in Jobs : status[i] # STATUS_QUEUED

\* C35: under the collision policies skip and suffix, finalizing a job never
\* replaces or deletes a file that exists at its final destination at
\* finalize time: a file that appeared there after the scan stays.
C35_NoClobber ==
  [][(policy \in {"skip", "suffix"}) =>
       (\A i \in Jobs : there[i] => there'[i])]_vars

\* C34: the jobs returned by one scan have pairwise distinct output paths
\* under every collision policy.
C34_DistinctOutputs ==
  items # <<>> =>
    \A p, q \in inputs : p # q => items[p].output_path # items[q].output_path

\* the jobs of the scan that are inside _process_item with a temporary path
Encoding == {p \in inputs : items # <<>> /\ stage[p] \in {STATUS_RUNNING, "encoded"}}

\* C38: the temporary path chosen for a job is not the final destination of
\* any job of the batch, and two jobs that are Running at the same time have
\* different temporary paths.
C38_TempPrivate ==
  /\ \A p \in Encoding : \A q \in inputs : temp_output[p] # items[q].output_path
  /\ \A p, q \in Encoding : p # q => temp_output[p] # temp_output[q]

====
